---------------------------- MODULE Spec2Model ----------------------------
(***************************************************************************)
(* The recurring-job scheduling engine of AgentSDR: the agent_schedules    *)
(* table, the recurrence calculators, the in-process poller                *)
(* (SchedulerService), the webhook (trigger_schedules) and the schedule    *)
(* editor (manage_schedule).                                               *)
(*                                                                         *)
(* Instants are whole seconds since 2025-01-01T00:00:00Z.  A timestamp     *)
(* column that is NULL holds NoneT.  A calculator that raises yields       *)
(* Raised.                                                                 *)
(***************************************************************************)
EXTENDS Integers, Sequences, FiniteSets, TLC

NoneT == 0 - 1
Raised == 0 - 2

(***************************************************************************)
(* Calendar arithmetic of datetime / timedelta / calendar.monthrange.      *)
(***************************************************************************)
EpochYear == 2025
DaySeconds == 86400

IsLeap(y) == (y % 4 = 0) /\ ((y % 100 # 0) \/ (y % 400 = 0))

DaysInYear(y) == IF IsLeap(y) THEN 366 ELSE 365

monthrange(y, m) ==
    IF m = 2 THEN (IF IsLeap(y) THEN 29 ELSE 28)
    ELSE IF m \in {4, 6, 9, 11} THEN 30 ELSE 31

RECURSIVE DaysBeforeYear(_)
DaysBeforeYear(y) ==
    IF y <= EpochYear THEN 0 ELSE DaysBeforeYear(y - 1) + DaysInYear(y - 1)

RECURSIVE DaysBeforeMonth(_, _)
DaysBeforeMonth(y, m) ==
    IF m <= 1 THEN 0 ELSE DaysBeforeMonth(y, m - 1) + monthrange(y, m - 1)

\* The instant of a civil date and time of day (datetime(y, m, d, hh, mm, ss)).
FromCivil(y, m, d, hh, mm, ss) ==
    (DaysBeforeYear(y) + DaysBeforeMonth(y, m) + (d - 1)) * DaySeconds
        + hh * 3600 + mm * 60 + ss

RECURSIVE YearOfDay(_, _)
YearOfDay(n, y) ==
    IF n < DaysInYear(y) THEN y ELSE YearOfDay(n - DaysInYear(y), y + 1)

RECURSIVE MonthOfDay(_, _, _)
MonthOfDay(n, y, m) ==
    IF n < monthrange(y, m) THEN m ELSE MonthOfDay(n - monthrange(y, m), y, m + 1)

\* The civil fields of an instant (datetime.year, .month, .day, .weekday()).
Civil(t) ==
    LET n == t \div DaySeconds
        y == YearOfDay(n, EpochYear)
        r == n - DaysBeforeYear(y)
        m == MonthOfDay(r, y, 1)
        d == r - DaysBeforeMonth(y, m) + 1
    IN  [year |-> y, month |-> m, day |-> d,
         \* 2025-01-01 is a Wednesday; weekday() counts Monday as 0.
         weekday |-> (n + 2) % 7,
         secs |-> t % DaySeconds]

\* datetime.replace(year=, month=, day=, hour=, minute=, second=0):
\* ValueError when the fields name no date or no time of day.
Replace(y, m, d, hh, mm) ==
    IF /\ m \in 1..12
       /\ d >= 1
       /\ d <= monthrange(y, m)
       /\ hh \in 0..23
       /\ mm \in 0..59
    THEN FromCivil(y, m, d, hh, mm, 0)
    ELSE Raised

\* now.replace(hour=hour, minute=minute, second=0, microsecond=0)
ReplaceTime(t, hh, mm) ==
    LET c == Civil(t) IN Replace(c.year, c.month, c.day, hh, mm)

\* x + timedelta(seconds=delta), an exception in x carried through.
Plus(x, delta) == IF x = Raised THEN Raised ELSE x + delta

(***************************************************************************)
(* The recurrence calculators.  schedule_time is the list of the fields    *)
(* that schedule_time.split(':') yields, a field that int() rejects being  *)
(* NotInt: "09:10" is <<9, 10>> and "09:10:00" is <<9, 10, 0>>.            *)
(***************************************************************************)
NotInt == 0 - 1
IST_OFFSET == 19800

Min(a, b) == IF a <= b THEN a ELSE b

\* hour, minute = map(int, schedule_time.split(':')) succeeds.
ParsesHourMinute(schedule_time) ==
    Len(schedule_time) = 2 /\ \A i \in 1..Len(schedule_time) : schedule_time[i] # NotInt

\* next_run_local left on today's date whether or not it has passed.
RollToTomorrow_Never(next_run_local, now_local) == next_run_local

\* if next_run_local < now_local: next_run_local += timedelta(days=1)
RollToTomorrow_Strict(next_run_local, now_local) ==
    IF next_run_local < now_local THEN next_run_local + DaySeconds ELSE next_run_local

\* if next_run_local <= now_local: next_run_local += timedelta(days=1)
RollToTomorrow(next_run_local, now_local) ==
    IF next_run_local <= now_local THEN next_run_local + DaySeconds ELSE next_run_local

\* days_until_target of the weekly branch.
DaysUntilTarget(day_of_week, current_weekday, next_run_local, now_local) ==
    LET days_until_target == (day_of_week - current_weekday) % 7
    IN  IF days_until_target = 0 /\ next_run_local <= now_local
        THEN 7
        ELSE days_until_target

calculate_next_run_time(t, schedule_time, frequency_type, day_of_week, day_of_month, one_time_datetime) ==
    IF frequency_type = "once"
    THEN IF one_time_datetime # NoneT THEN one_time_datetime ELSE t + 3600
    ELSE IF ~ParsesHourMinute(schedule_time) THEN Raised
    ELSE
      LET hour == schedule_time[1]
          minute == schedule_time[2]
          now_local == t + IST_OFFSET
          c == Civil(now_local)
          next_run_local == ReplaceTime(now_local, hour, minute)
      IN  IF next_run_local = Raised THEN Raised
          ELSE IF frequency_type = "daily"
          THEN RollToTomorrow(next_run_local, now_local) - IST_OFFSET
          ELSE IF frequency_type = "weekly"
          THEN IF day_of_week = NoneT THEN Raised
               ELSE LET current_weekday == c.weekday + 1
                        days_until_target ==
                            DaysUntilTarget(day_of_week, current_weekday,
                                            next_run_local, now_local)
                    IN  next_run_local + days_until_target * DaySeconds - IST_OFFSET
          ELSE IF frequency_type = "monthly"
          THEN IF day_of_month = NoneT THEN Raised
               ELSE LET target ==
                          IF c.day < day_of_month
                          THEN Replace(c.year, c.month, day_of_month, hour, minute)
                          ELSE IF c.day = day_of_month /\ next_run_local > now_local
                          THEN Replace(c.year, c.month, day_of_month, hour, minute)
                          ELSE IF c.month = 12
                          THEN Replace(c.year + 1, 1, Min(day_of_month, 31), hour, minute)
                          ELSE Replace(c.year, c.month + 1,
                                       Min(day_of_month, monthrange(c.year, c.month + 1)),
                                       hour, minute)
                    IN  Plus(target, 0 - IST_OFFSET)
          ELSE Raised

\* SchedulerService._calculate_next_run_time: None for a once schedule.
Poller_calculate_next_run_time(t, schedule) ==
    IF schedule.frequency_type = "once" THEN NoneT
    ELSE IF ~ParsesHourMinute(schedule.schedule_time) THEN Raised
    ELSE
      LET hour == schedule.schedule_time[1]
          minute == schedule.schedule_time[2]
          c == Civil(t)
      IN  IF schedule.frequency_type = "weekly"
          THEN Plus(ReplaceTime(t, hour, minute), 7 * DaySeconds)
          ELSE IF schedule.frequency_type = "monthly"
          THEN IF c.month = 12
               THEN Replace(c.year + 1, 1, c.day, hour, minute)
               ELSE IF schedule.day_of_month = NoneT THEN Raised
               ELSE Replace(c.year, c.month + 1,
                            Min(schedule.day_of_month, monthrange(c.year, c.month + 1)),
                            hour, minute)
          ELSE Plus(ReplaceTime(t, hour, minute), DaySeconds)

\* scheduler_webhook._calculate_next_run_time: any exception becomes None.
Webhook_calculate_next_run_time(t, schedule) ==
    IF schedule.frequency_type = "once" THEN NoneT
    ELSE IF ~ParsesHourMinute(schedule.schedule_time) THEN NoneT
    ELSE
      LET hour == schedule.schedule_time[1]
          minute == schedule.schedule_time[2]
          next_run ==
              IF schedule.frequency_type = "weekly"
              THEN Plus(ReplaceTime(t, hour, minute), 7 * DaySeconds)
              ELSE Plus(ReplaceTime(t, hour, minute), DaySeconds)
      IN  IF next_run = Raised THEN NoneT ELSE next_run

(***************************************************************************)
(* The agent_schedules table, the clock and the trigger surfaces.          *)
(* manage_schedule keeps one schedule per agent, so a row is named by its  *)
(* agent.                                                                  *)
(***************************************************************************)
Agents == {"a1", "a2"}
AgentOrder == <<"a1", "a2">>

\* The agents whose schedule the editor is asked to save.
Edited == {"a1"}

\* Bounds of the model.
MaxTicks == 4
MaxDays == 1
MaxEdits == 2

\* The clock at start: 2025-01-31T03:30:00Z, 09:00 owner-local.
StartTime == FromCivil(2025, 1, 31, 3, 30, 0)

VARIABLES now, store, edits,
          poller_pc, poller_now, due_schedules,
          wh_pc, wh_now, wh_rows, executed_count,
          response, last_exec, once_done,
          call_schedules, call_req, dialed, call_result,
          running, thread, loop

vars == <<now, store, edits, poller_pc, poller_now, due_schedules,
          wh_pc, wh_now, wh_rows, executed_count, response, last_exec, once_done,
          call_schedules, call_req, dialed, call_result, running, thread, loop>>

pollerVars == <<poller_pc, poller_now, due_schedules>>
webhookVars == <<wh_pc, wh_now, wh_rows, executed_count>>
callVars == <<call_schedules, call_req, dialed, call_result>>
svcVars == <<running, thread, loop>>

NoRow(a) ==
    [id |-> a, exists |-> FALSE, is_active |-> FALSE, next_run_at |-> NoneT,
     last_run_at |-> NoneT, frequency_type |-> "daily", schedule_time |-> <<>>,
     day_of_week |-> NoneT, day_of_month |-> NoneT, one_time_datetime |-> NoneT]

\* supabase.table('agent_schedules').select('*') without the is_active filter.
ActiveRows_Unfiltered(st) ==
    LET ids == SelectSeq(AgentOrder, LAMBDA a : st[a].exists)
    IN  [i \in 1..Len(ids) |-> st[ids[i]]]

\* supabase.table('agent_schedules').select('*').eq('is_active', True)
ActiveRows(st) ==
    LET ids == SelectSeq(AgentOrder, LAMBDA a : st[a].exists /\ st[a].is_active)
    IN  [i \in 1..Len(ids) |-> st[ids[i]]]

(***************************************************************************)
(* Due-set selection.                                                      *)
(***************************************************************************)
WINDOW == 300
COOLDOWN == 600

\* A stored timestamp datetime.fromisoformat rejects.
Unparsable == 0 - 3

InWindow(schedule, t) ==
    /\ schedule.next_run_at # NoneT
    /\ schedule.next_run_at # Unparsable
    /\ 0 - WINDOW <= schedule.next_run_at - t
    /\ schedule.next_run_at - t <= WINDOW

\* Poller_is_due without the cooldown test.
Poller_is_due_NoCooldown(schedule, t) ==
    /\ schedule.next_run_at # NoneT
    /\ InWindow(schedule, t)

\* The loop body of SchedulerService._check_and_execute_schedules.
Poller_is_due(schedule, t) ==
    /\ schedule.next_run_at # NoneT
    /\ InWindow(schedule, t)
    /\ IF schedule.last_run_at # NoneT
       THEN t - schedule.last_run_at > COOLDOWN
       ELSE TRUE

\* _is_schedule_due with the edges of the window left out.
_is_schedule_due_OpenWindow(schedule, t) ==
    /\ schedule.next_run_at # NoneT
    /\ schedule.next_run_at # Unparsable
    /\ 0 - WINDOW < schedule.next_run_at - t
    /\ schedule.next_run_at - t < WINDOW
    /\ schedule.last_run_at # Unparsable
    /\ (schedule.last_run_at = NoneT \/ t - schedule.last_run_at >= COOLDOWN)

\* The loop body of _check_and_execute_schedules raises on the schedule: a
\* timestamp it parses is not in ISO format.  last_run_at is parsed only
\* inside the window.
Poller_raises(schedule, t) ==
    \/ schedule.next_run_at = Unparsable
    \/ InWindow(schedule, t) /\ schedule.last_run_at = Unparsable

\* The pass raises before its execution loop: no due_schedules are left.
PassRaises(rows, t) == \E i \in 1..Len(rows) : Poller_raises(rows[i], t)

\* scheduler_webhook._is_schedule_due; a timestamp that does not parse is
\* caught inside and answered False.
_is_schedule_due(schedule, t) ==
    IF schedule.next_run_at = NoneT THEN FALSE
    ELSE IF schedule.next_run_at = Unparsable THEN FALSE
    ELSE IF InWindow(schedule, t)
    THEN IF schedule.last_run_at = Unparsable THEN FALSE
         ELSE IF schedule.last_run_at # NoneT /\ t - schedule.last_run_at < COOLDOWN
         THEN FALSE
         ELSE TRUE
    ELSE FALSE

(***************************************************************************)
(* Execution of one schedule.  What the collaborators do is the outcome:   *)
(* the agent row is missing, the agent is paused, it has no Gmail refresh  *)
(* token, fetch_and_summarize_emails or send_email_summary raises, there   *)
(* are no summaries, send_email_summary returns True or False.             *)
(***************************************************************************)
Outcomes == {"agent_missing", "paused", "no_token", "raised",
             "no_emails", "sent", "send_failed"}

\* The outcomes on which _execute_schedule would update the run-state if a
\* delivery that reported failure counted as a run.
ReturnsTrue_AlsoSendFailed(outcome) == outcome \in {"no_emails", "sent", "send_failed"}

\* The outcomes on which _execute_schedule calls _update_schedule_after_run
\* and returns True.
ReturnsTrue(outcome) == outcome \in {"no_emails", "sent"}

\* The outcomes in which a collaborator was called.
Fetched(outcome) == outcome \in {"raised", "no_emails", "sent", "send_failed"}

\* SchedulerService._update_schedule_after_run: the row it leaves, given the
\* stored row and the schedule the pass read.
Poller_update_schedule_after_run(t, row, schedule) ==
    LET next_run_time == Poller_calculate_next_run_time(t, schedule)
    IN  IF next_run_time = Raised THEN row
        ELSE IF next_run_time # NoneT
        THEN [row EXCEPT !.last_run_at = t, !.next_run_at = next_run_time]
        ELSE [row EXCEPT !.last_run_at = t, !.is_active = FALSE]

\* scheduler_webhook._update_schedule_after_run
Webhook_update_schedule_after_run(t, row, schedule) ==
    LET next_run_time == Webhook_calculate_next_run_time(t, schedule)
    IN  IF next_run_time = Raised THEN row
        ELSE IF next_run_time # NoneT
        THEN [row EXCEPT !.last_run_at = t, !.next_run_at = next_run_time]
        ELSE [row EXCEPT !.last_run_at = t, !.is_active = FALSE]

\* enhanced_scheduler.calculate_next_run_time
Cli_calculate_next_run_time(t, schedule) ==
    IF schedule.frequency_type = "once" THEN NoneT
    ELSE IF ~ParsesHourMinute(schedule.schedule_time) THEN Raised
    ELSE
      LET hour == schedule.schedule_time[1]
          minute == schedule.schedule_time[2]
          c == Civil(t)
      IN  IF schedule.frequency_type = "daily"
          THEN Plus(ReplaceTime(t, hour, minute), DaySeconds)
          ELSE IF schedule.frequency_type = "weekly"
          THEN Plus(ReplaceTime(t, hour, minute), 7 * DaySeconds)
          ELSE IF schedule.frequency_type = "monthly"
          THEN IF c.month = 12
               THEN Replace(c.year + 1, 1, c.day, hour, minute)
               ELSE IF schedule.day_of_month = NoneT THEN Raised
               ELSE Replace(c.year, c.month + 1,
                            Min(schedule.day_of_month, monthrange(c.year, c.month + 1)),
                            hour, minute)
          ELSE Raised

\* enhanced_scheduler.update_schedule_after_run: a once schedule is switched
\* off and its next_run_at cleared.
Cli_update_schedule_after_run(t, row, schedule) ==
    LET next_run == Cli_calculate_next_run_time(t, schedule)
    IN  IF next_run = Raised THEN row
        ELSE IF next_run = NoneT
        THEN [row EXCEPT !.last_run_at = t, !.is_active = FALSE, !.next_run_at = NoneT]
        ELSE [row EXCEPT !.last_run_at = t, !.next_run_at = next_run]

\* SchedulerService._execute_schedule: the row it leaves.
Poller_execute_schedule(t, row, schedule, outcome) ==
    IF ReturnsTrue(outcome) /\ row.exists
    THEN Poller_update_schedule_after_run(t, row, schedule)
    ELSE row

\* scheduler_webhook._execute_schedule: the row it leaves.
Webhook_execute_schedule(t, row, schedule, outcome) ==
    IF ReturnsTrue(outcome) /\ row.exists
    THEN Webhook_update_schedule_after_run(t, row, schedule)
    ELSE row

\* last_exec tells what the step just taken executed, if it executed a
\* schedule: the schedule as the pass read it, the stored row before, the
\* outcome, what _execute_schedule returned and the instant.
NoExec ==
    [surface |-> "none", schedule |-> NoRow("a1"), before |-> NoRow("a1"),
     outcome |-> "sent", ret |-> FALSE, at |-> NoneT]

Executed(surface, schedule, before, outcome, t) ==
    [surface |-> surface, schedule |-> schedule, before |-> before,
     outcome |-> outcome, ret |-> ReturnsTrue(outcome), at |-> t]

\* response tells what the step just taken answered, if it answered a
\* webhook request: the status, the count and what the request presented.
NoResponse == [status |-> NoneT, executed_schedules |-> 0, presented |-> "nothing"]

\* The answer with the count left out of it.
Response_NoCount(status, count, presented) ==
    [status |-> status, executed_schedules |-> 0, presented |-> presented]

Response(status, count, presented) ==
    [status |-> status, executed_schedules |-> count, presented |-> presented]

\* What the step just taken did, if it was not of the kind the variable
\* reports: no schedule executed, no webhook response sent.
Quiet == last_exec' = NoExec /\ response' = NoResponse

\* The schedule was a once schedule and this execution switched it off.
OnceDone(schedule, before, after) ==
    schedule.frequency_type = "once" /\ before.is_active /\ ~after.is_active

(***************************************************************************)
(* The schedule editor: POST /<org_slug>/agents/<agent_id>/schedule.       *)
(***************************************************************************)
Form(schedule_time, frequency_type, day_of_week, day_of_month, one_time_datetime) ==
    [schedule_time |-> schedule_time, frequency_type |-> frequency_type,
     day_of_week |-> day_of_week, day_of_month |-> day_of_month,
     one_time_datetime |-> one_time_datetime]

\* The request bodies the model posts: owner-local times of day a few minutes
\* after the start.  "09:05:00" is the form test_schedule_api.py posts.
Forms ==
    { Form(<<9, 5>>, "daily", NoneT, NoneT, NoneT),
      Form(<<9, 10>>, "daily", NoneT, NoneT, NoneT),
      Form(<<9, 5, 0>>, "daily", NoneT, NoneT, NoneT),
      Form(<<9, 5>>, "monthly", NoneT, 31, NoneT),
      Form(<<9, 5, 0>>, "once", NoneT, NoneT, StartTime + 300) }

\* A field of the request replaces the stored one only when it is given.
Given(new, old) == IF new # NoneT THEN new ELSE old

\* The row manage_schedule leaves: an existing row is updated, is_active and
\* last_run_at kept; otherwise a row is inserted, active.  A calculator that
\* raises is answered with 500 and nothing is written.
\* update_data of the update branch, switching the schedule on again.
UpdatedRow_Reactivates(row, form, next_run_at) ==
    [row EXCEPT !.schedule_time = form.schedule_time,
                !.frequency_type = form.frequency_type,
                !.day_of_week = Given(form.day_of_week, @),
                !.day_of_month = Given(form.day_of_month, @),
                !.one_time_datetime = Given(form.one_time_datetime, @),
                !.next_run_at = next_run_at,
                !.is_active = TRUE]

\* update_data of the update branch: is_active and last_run_at are not in it.
UpdatedRow(row, form, next_run_at) ==
    [row EXCEPT !.schedule_time = form.schedule_time,
                !.frequency_type = form.frequency_type,
                !.day_of_week = Given(form.day_of_week, @),
                !.day_of_month = Given(form.day_of_month, @),
                !.one_time_datetime = Given(form.one_time_datetime, @),
                !.next_run_at = next_run_at]

\* schedule_data of the insert branch.
InsertedRow(row, form, next_run_at) ==
    [id |-> row.id, exists |-> TRUE, is_active |-> TRUE,
     next_run_at |-> next_run_at, last_run_at |-> NoneT,
     frequency_type |-> form.frequency_type,
     schedule_time |-> form.schedule_time,
     day_of_week |-> form.day_of_week,
     day_of_month |-> form.day_of_month,
     one_time_datetime |-> form.one_time_datetime]

manage_schedule_row(t, row, form) ==
    LET next_run_at ==
            calculate_next_run_time(t, form.schedule_time, form.frequency_type,
                                    form.day_of_week, form.day_of_month,
                                    form.one_time_datetime)
    IN  IF next_run_at = Raised THEN row
        ELSE IF row.exists
        THEN UpdatedRow(row, form, next_run_at)
        ELSE InsertedRow(row, form, next_run_at)

manage_schedule(a, form) ==
    /\ edits < MaxEdits
    /\ edits' = edits + 1
    /\ store' = [store EXCEPT ![a] = manage_schedule_row(now, store[a], form)]
    /\ Quiet
    /\ UNCHANGED <<now, pollerVars, webhookVars, once_done, callVars, svcVars>>

(***************************************************************************)
(* The clock.  Within a day it moves through the instants Offsets after    *)
(* the start of the day, the first MaxTicks + 1 of them; then a whole day  *)
(* may pass at once.  The offsets put the clock on and next to the edges   *)
(* of the tolerance window and of the cooldown.                            *)
(***************************************************************************)
Offsets == <<0, 300, 540, 600, 660, 900, 960, 1200>>

OffsetNow == (now - StartTime) % DaySeconds

\* How many of the day's instants have been reached.
TicksDone == Cardinality({i \in 1..Len(Offsets) : Offsets[i] <= OffsetNow})

Tick ==
    /\ TicksDone <= MaxTicks
    /\ TicksDone < Len(Offsets)
    /\ now' = now - OffsetNow + Offsets[TicksDone + 1]
    /\ Quiet
    /\ UNCHANGED <<store, edits, pollerVars, webhookVars, once_done, callVars, svcVars>>

\* A day passes, from the last instant the model follows in a day.
DayPasses ==
    /\ (now - StartTime) \div DaySeconds < MaxDays
    /\ TicksDone > MaxTicks
    /\ now' = now + DaySeconds
    /\ Quiet
    /\ UNCHANGED <<store, edits, pollerVars, webhookVars, once_done, callVars, svcVars>>

(***************************************************************************)
(* The poller: SchedulerService._scheduler_loop.                           *)
(*   Idle      at the loop test                                            *)
(*   Checking  in _check_and_execute_schedules, the due set computed       *)
(*   Sleeping  in time.sleep(60)                                           *)
(*   Terminated the thread has ended                                       *)
(***************************************************************************)
\* Where the loop would go if an exception of the pass escaped the thread.
AfterPassError_Terminates == "Terminated"

\* Where the loop goes when the pass raises: both the pass and the loop
\* catch Exception, log it, and the loop goes on to sleep.
AfterPassError == "Sleeping"

Ids(rows) == {rows[i].id : i \in 1..Len(rows)}

\* The pass reads the active rows and selects the due ones; a row that makes
\* the selection raise ends the pass in its except clause.
PollerSelect ==
    /\ poller_pc = "Idle"
    /\ IF PassRaises(ActiveRows(store), now)
       THEN /\ poller_pc' = AfterPassError
            /\ UNCHANGED <<poller_now, due_schedules>>
       ELSE /\ poller_pc' = "Checking"
            /\ poller_now' = now
            /\ due_schedules' = SelectSeq(ActiveRows(store), LAMBDA r : Poller_is_due(r, now))
    /\ Quiet
    /\ UNCHANGED <<now, store, edits, webhookVars, once_done, callVars, svcVars>>

\* The query raises (the store cannot be reached).
PollerSelectError ==
    /\ poller_pc = "Idle"
    /\ poller_pc' = AfterPassError
    /\ Quiet
    /\ UNCHANGED <<now, store, edits, poller_now, due_schedules, webhookVars, once_done, callVars, svcVars>>

PollerExecute(outcome) ==
    /\ poller_pc = "Checking"
    /\ due_schedules # <<>>
    /\ LET schedule == Head(due_schedules)
           row == store[schedule.id]
           after == Poller_execute_schedule(now, row, schedule, outcome)
       IN  /\ store' = [store EXCEPT ![schedule.id] = after]
           /\ last_exec' = Executed("poller", schedule, row, outcome, now)
           /\ response' = NoResponse
           /\ once_done' = [once_done EXCEPT
                              ![schedule.id] = @ \/ OnceDone(schedule, row, after)]
    /\ due_schedules' = Tail(due_schedules)
    /\ UNCHANGED <<now, edits, poller_pc, poller_now, webhookVars, callVars, svcVars>>

PollerFinish ==
    /\ poller_pc = "Checking"
    /\ due_schedules = <<>>
    /\ poller_pc' = "Sleeping"
    /\ poller_now' = NoneT
    /\ Quiet
    /\ UNCHANGED <<now, store, edits, due_schedules, webhookVars, once_done, callVars, svcVars>>

\* time.sleep(60) returns and the loop tests self.running again.  The model
\* does not tie the sleep to the clock: a pass may start at any instant.
PollerWake ==
    /\ poller_pc = "Sleeping"
    /\ poller_pc' = "Idle"
    /\ Quiet
    /\ UNCHANGED <<now, store, edits, poller_now, due_schedules, webhookVars, once_done, callVars, svcVars>>

PollerNext ==
    \/ PollerSelect
    \/ PollerSelectError
    \/ \E outcome \in Outcomes : PollerExecute(outcome)
    \/ PollerFinish
    \/ PollerWake

(***************************************************************************)
(* The webhook: POST /webhook/trigger-schedules.                           *)
(* A request carries an X-API-Key header (absent, empty, the expected key  *)
(* or another one) and a body (not JSON, JSON without api_key, or JSON     *)
(* with the expected key or another one).                                  *)
(***************************************************************************)
Headers == {"absent", "empty", "good", "bad"}
Bodies == {"nojson", "nofield", "good", "bad"}

\* request.headers.get('X-API-Key') or request.json.get('api_key'):
\* "raises" when request.json has to be read and the body is not JSON.
api_key(header, body) ==
    IF header \in {"good", "bad"} THEN header
    ELSE IF body = "nojson" THEN "raises"
    ELSE IF body = "nofield" THEN "none"
    ELSE body

\* The status trigger_schedules would answer if it only required that some
\* key be presented.
AuthStatus_AnyKey(header, body) ==
    IF api_key(header, body) = "raises" THEN 500
    ELSE IF api_key(header, body) = "none" THEN 401
    ELSE NoneT

\* The status trigger_schedules answers before it reads the store, or
\* NoneT when the key is accepted.
AuthStatus(header, body) ==
    IF api_key(header, body) = "raises" THEN 500
    ELSE IF api_key(header, body) # "good" THEN 401
    ELSE NoneT

\* What the request presented as its credential.
Presented(header, body) ==
    IF header = "bad" \/ (header # "good" /\ body = "bad") THEN "wrong"
    ELSE IF header \in {"absent", "empty"} /\ body \in {"nojson", "nofield"} THEN "nothing"
    ELSE "right"

\* The request arrives: it is refused, or the active rows are read.
WebhookRequest(header, body) ==
    /\ wh_pc = "Idle"
    /\ IF AuthStatus(header, body) # NoneT
       THEN /\ response' = Response(AuthStatus(header, body), 0, Presented(header, body))
            /\ UNCHANGED <<wh_pc, wh_now, wh_rows, executed_count>>
       ELSE /\ wh_pc' = "Running"
            /\ wh_now' = now
            /\ wh_rows' = ActiveRows(store)
            /\ executed_count' = 0
            /\ response' = NoResponse
    /\ last_exec' = NoExec
    /\ UNCHANGED <<now, store, edits, pollerVars, once_done, callVars, svcVars>>

\* One turn of the loop over response.data.
WebhookStep(outcome) ==
    /\ wh_pc = "Running"
    /\ wh_rows # <<>>
    /\ LET schedule == Head(wh_rows)
           row == store[schedule.id]
           after == Webhook_execute_schedule(now, row, schedule, outcome)
       IN  IF _is_schedule_due(schedule, wh_now)
           THEN /\ store' = [store EXCEPT ![schedule.id] = after]
                /\ last_exec' = Executed("webhook", schedule, row, outcome, now)
                /\ once_done' = [once_done EXCEPT
                                   ![schedule.id] = @ \/ OnceDone(schedule, row, after)]
                /\ executed_count' = IF ReturnsTrue(outcome)
                                     THEN executed_count + 1
                                     ELSE executed_count
           ELSE /\ outcome = "sent"
                /\ last_exec' = NoExec
                /\ UNCHANGED <<store, once_done, executed_count>>
    /\ wh_rows' = Tail(wh_rows)
    /\ response' = NoResponse
    /\ UNCHANGED <<now, edits, pollerVars, wh_pc, wh_now, callVars, svcVars>>

\* The loop is over: 200 with the count.
WebhookRespond ==
    /\ wh_pc = "Running"
    /\ wh_rows = <<>>
    /\ wh_pc' = "Idle"
    /\ wh_now' = NoneT
    /\ executed_count' = 0
    /\ response' = Response(200, executed_count, "right")
    /\ last_exec' = NoExec
    /\ UNCHANGED <<now, store, edits, pollerVars, wh_rows, once_done, callVars, svcVars>>

WebhookNext ==
    \/ \E header \in Headers, body \in Bodies : WebhookRequest(header, body)
    \/ \E outcome \in Outcomes : WebhookStep(outcome)
    \/ WebhookRespond

(***************************************************************************)
(* The system: an empty table, the poller thread started, the clock at     *)
(* StartTime.                                                              *)
(***************************************************************************)
(***************************************************************************)
(* Call schedules: the table call_schedules, and the requests to           *)
(* POST /<org_slug>/call-schedules/<schedule_id>/execute in flight.        *)
(***************************************************************************)
CallIds == {"s1", "s2"}
Orgs == {"o1", "o2"}
Requests == {"r1", "r2"}

NoCall ==
    [exists |-> FALSE, org_id |-> "o1", is_active |-> FALSE,
     call_status |-> "scheduled", scheduled_at |-> NoneT, bolna_call_id |-> NoneT]

\* A request that is not in flight.
NoRequest == [pc |-> "idle", org_slug |-> "o1", schedule_id |-> "s1", schedule |-> NoCall]

\* call_result tells what the step just taken answered, if it answered an
\* execute request: the schedule, the row as it was when the request
\* arrived, result['success'] and the HTTP status.
NoCallResult ==
    [schedule_id |-> "none", before |-> NoCall, success |-> FALSE, status |-> NoneT]

CallInit ==
    /\ call_schedules = [id \in CallIds |-> NoCall]
    /\ call_req = [r \in Requests |-> NoRequest]
    /\ dialed = [id \in CallIds |-> 0]
    /\ call_result = NoCallResult

\* The Bolna calls the model follows per schedule.
MaxDials == 2

\* scheduled_at of a new call schedule: an hour ago, or an hour ahead.
ScheduledAts(t) == {t - 3600, t + 3600}

\* The steps of the call requests leave the email scheduler alone and
\* report no email execution and no webhook answer.
CallStep ==
    /\ Quiet
    /\ UNCHANGED <<now, store, edits, pollerVars, webhookVars, once_done, svcVars>>

\* CallSchedulingService.create_call_schedule, under a fresh id.
create_call_schedule(id, org, scheduled_at) ==
    /\ ~call_schedules[id].exists
    /\ call_schedules' = [call_schedules EXCEPT ![id] =
          [exists |-> TRUE, org_id |-> org, is_active |-> TRUE,
           call_status |-> "scheduled", scheduled_at |-> scheduled_at,
           bolna_call_id |-> NoneT]]
    /\ call_result' = NoCallResult
    /\ CallStep
    /\ UNCHANGED <<call_req, dialed>>

\* PUT /<org_slug>/call-schedules/<schedule_id> with is_active in the body.
update_call_schedule(org, id, active) ==
    /\ call_schedules[id].exists
    /\ call_schedules[id].org_id = org
    /\ call_schedules[id].is_active # active
    /\ call_schedules' = [call_schedules EXCEPT ![id].is_active = active]
    /\ call_result' = NoCallResult
    /\ CallStep
    /\ UNCHANGED <<call_req, dialed>>

\* The guard of execute_scheduled_call without its test of call_status.
Refused_IgnoresStatus(schedule) == ~schedule.exists \/ ~schedule.is_active

\* execute_scheduled_call refuses the schedule as it reads it.
Refused(schedule) ==
    \/ ~schedule.exists
    \/ ~schedule.is_active
    \/ schedule.call_status # "scheduled"

\* execute_call_schedule up to the guard of execute_scheduled_call: the
\* organization is looked up, the schedule is read by id alone, and the
\* request is refused (500) or goes on.
CallArrive(r, org, id) ==
    /\ call_req[r].pc = "idle"
    /\ LET schedule == call_schedules[id]
       IN  IF Refused(schedule)
           THEN /\ call_result' = [schedule_id |-> id, before |-> schedule,
                                   success |-> FALSE, status |-> 500]
                /\ UNCHANGED call_req
           ELSE /\ call_req' = [call_req EXCEPT ![r] =
                      [pc |-> "checked", org_slug |-> org, schedule_id |-> id,
                       schedule |-> schedule]]
                /\ call_result' = NoCallResult
    /\ CallStep
    /\ UNCHANGED <<call_schedules, dialed>>

\* The update that follows the guard.
MarkedInProgress(schedule) ==
    IF schedule.exists THEN [schedule EXCEPT !.call_status = "in_progress"] ELSE schedule

\* execute_scheduled_call: call_status is set to in_progress.
CallMark(r) ==
    /\ call_req[r].pc = "checked"
    /\ call_schedules' = [call_schedules EXCEPT ![call_req[r].schedule_id] = MarkedInProgress(@)]
    /\ call_req' = [call_req EXCEPT ![r].pc = "marked"]
    /\ call_result' = NoCallResult
    /\ CallStep
    /\ UNCHANGED dialed

\* What _initiate_bolna_call can come to: the call is placed (2xx), Bolna
\* rejects the request, or the request is not sent (no agent, bad numbers,
\* an exception).
CallOutcomes == {"placed", "rejected", "not_sent"}

\* _initiate_bolna_call
CallInitiate(r, outcome) ==
    /\ call_req[r].pc = "marked"
    /\ LET id == call_req[r].schedule_id
       IN  IF outcome = "placed"
           THEN /\ dialed[id] < MaxDials
                /\ dialed' = [dialed EXCEPT ![id] = @ + 1]
                /\ call_req' = [call_req EXCEPT ![r].pc = "initiated"]
           ELSE /\ call_req' = [call_req EXCEPT ![r].pc = "failed"]
                /\ UNCHANGED dialed
    /\ call_result' = NoCallResult
    /\ CallStep
    /\ UNCHANGED call_schedules

\* The update after _initiate_bolna_call returned, without the one that
\* follows a failure.
AfterInitiate_NoRevert(schedule, success, bolna_call_id) ==
    IF schedule.exists /\ success
    THEN [schedule EXCEPT !.bolna_call_id = bolna_call_id, !.call_status = "in_progress"]
    ELSE schedule

\* The update after _initiate_bolna_call returned.
AfterInitiate(schedule, success, bolna_call_id) ==
    IF ~schedule.exists THEN schedule
    ELSE IF success
    THEN [schedule EXCEPT !.bolna_call_id = bolna_call_id, !.call_status = "in_progress"]
    ELSE [schedule EXCEPT !.call_status = "scheduled"]

\* execute_scheduled_call from the return of _initiate_bolna_call, and the
\* answer of execute_call_schedule: 200, or 500.
CallFinish(r) ==
    /\ call_req[r].pc \in {"initiated", "failed"}
    /\ LET id == call_req[r].schedule_id
           success == call_req[r].pc = "initiated"
       IN  /\ call_schedules' = [call_schedules EXCEPT ![id] = AfterInitiate(@, success, dialed[id])]
           /\ call_result' = [schedule_id |-> id, before |-> call_req[r].schedule,
                              success |-> success,
                              status |-> IF success THEN 200 ELSE 500]
    /\ call_req' = [call_req EXCEPT ![r] = NoRequest]
    /\ CallStep
    /\ UNCHANGED dialed

\* The routes of the call schedules, serving the requests in flight.
CallRoutes(requests) ==
    \/ \E id \in CallIds, org \in Orgs, scheduled_at \in ScheduledAts(now) :
          create_call_schedule(id, org, scheduled_at)
    \/ \E org \in Orgs, id \in CallIds, active \in BOOLEAN :
          update_call_schedule(org, id, active)
    \/ \E r \in requests, org \in Orgs, id \in CallIds : CallArrive(r, org, id)
    \/ \E r \in requests : CallMark(r)
    \/ \E r \in requests, outcome \in CallOutcomes : CallInitiate(r, outcome)
    \/ \E r \in requests : CallFinish(r)

CallNext == CallRoutes(Requests)

(***************************************************************************)
(* manual_test_schedule.py: test_your_schedule takes the first row of      *)
(* agent_schedules, whatever it holds, and sends its digest.  A paused     *)
(* agent is warned about and served; no emails found are replaced by a     *)
(* test summary.  Nothing is written to the schedule.                      *)
(***************************************************************************)
ManualOutcomes == {"agent_missing", "no_token", "raised", "sent", "send_failed"}

\* response.data[0] of select('*'), the table not being empty.
FirstRow(st) == st[SelectSeq(AgentOrder, LAMBDA a : st[a].exists)[1]]

test_your_schedule(outcome) ==
    /\ \E a \in Agents : store[a].exists
    /\ LET schedule == FirstRow(store)
       IN  last_exec' = [surface |-> "manual", schedule |-> schedule, before |-> schedule,
                         outcome |-> outcome, ret |-> outcome = "sent", at |-> now]
    /\ response' = NoResponse
    /\ UNCHANGED <<now, store, edits, pollerVars, webhookVars, once_done, callVars, svcVars>>

EmptyStore == [a \in Agents |-> NoRow(a)]

\* The threads start() can create in a run of the model.
MaxThreads == 3
Threads == 1..MaxThreads

\* SchedulerService.__init__: not running, no thread.  A thread is "new"
\* until start() creates it, then at the test of the while ("test"), in
\* _check_and_execute_schedules ("pass"), in time.sleep(60) ("sleep"), and
\* "done" when the loop has ended.
SvcConstructed ==
    /\ running = FALSE
    /\ thread = NoneT
    /\ loop = [t \in Threads |-> "new"]

\* The service after the application has called start() once.
SvcStarted ==
    /\ running = TRUE
    /\ thread = 1
    /\ loop = [t \in Threads |-> IF t = 1 THEN "test" ELSE "new"]

InitBase(t) ==
    /\ now = t
    /\ edits = 0
    /\ poller_pc = "Idle"
    /\ poller_now = NoneT
    /\ due_schedules = <<>>
    /\ wh_pc = "Idle"
    /\ wh_now = NoneT
    /\ wh_rows = <<>>
    /\ executed_count = 0
    /\ response = NoResponse
    /\ last_exec = NoExec
    /\ once_done = [a \in Agents |-> FALSE]
    /\ CallInit

InitAt(t) == InitBase(t) /\ SvcStarted

Init == store = EmptyStore /\ InitAt(StartTime)

Next ==
    \/ \E a \in Edited, form \in Forms : manage_schedule(a, form)
    \/ Tick
    \/ DayPasses
    \/ PollerNext
    \/ WebhookNext

Spec == Init /\ [][Next]_vars

(***************************************************************************)
(* The poller alone with the editor and the clock, the thread scheduled    *)
(* fairly: a thread that can take a step takes one.                        *)
(***************************************************************************)
PollerSystemNext ==
    \/ \E a \in Edited, form \in Forms : manage_schedule(a, form)
    \/ Tick
    \/ DayPasses
    \/ PollerNext

PollerFairSpec == Init /\ [][PollerSystemNext]_vars /\ WF_vars(PollerNext)

(***************************************************************************)
(* The system with the operator script test_schedule_today.py, which       *)
(* rewrites the first schedule to fall due in ten minutes.                 *)
(***************************************************************************)
\* schedule_time as the script formats it, "HH:MM:00", from the local time.
ScriptScheduleTime(t) ==
    LET secs == Civil(t + IST_OFFSET).secs
    IN  <<secs \div 3600, (secs % 3600) \div 60, 0>>

setup_test_schedule_today ==
    /\ edits < MaxEdits
    /\ edits' = edits + 1
    /\ \E i \in 1..Len(AgentOrder) :
          /\ store[AgentOrder[i]].exists
          /\ \A j \in 1..(i - 1) : ~store[AgentOrder[j]].exists
          /\ store' = [store EXCEPT ![AgentOrder[i]] =
                          [@ EXCEPT !.next_run_at = now + 600,
                                    !.is_active = TRUE,
                                    !.schedule_time = ScriptScheduleTime(now + 600)]]
    /\ Quiet
    /\ UNCHANGED <<now, pollerVars, webhookVars, once_done, callVars, svcVars>>

ScriptSpec == Init /\ [][Next \/ setup_test_schedule_today]_vars

(***************************************************************************)
(* The calculators over the calendar: the clock stands at one of the       *)
(* instants CalendarNows, a schedule is saved from one of CalendarForms,   *)
(* and _update_schedule_after_run of either surface is applied to it.      *)
(***************************************************************************)
CalendarDays ==
    { <<2025, 1, 31>>, <<2025, 2, 28>>, <<2025, 4, 10>>, <<2025, 4, 30>>,
      <<2025, 12, 15>>, <<2025, 12, 31>>, <<2028, 2, 29>> }

\* Times of day, UTC: around 09:00 owner-local, around owner-local midnight
\* and at the end of the UTC day.
CalendarTimes ==
    { <<3, 29, 30>>, <<3, 30, 0>>, <<3, 30, 30>>, <<18, 29, 59>>, <<18, 30, 0>>,
      <<23, 59, 59>> }

CalendarNows ==
    { FromCivil(d[1], d[2], d[3], t[1], t[2], t[3]) : d \in CalendarDays, t \in CalendarTimes }

CalendarForms ==
    { Form(st, "daily", NoneT, NoneT, NoneT) : st \in {<<9, 0>>, <<0, 0>>, <<23, 59>>} }
    \cup { Form(st, "weekly", dow, NoneT, NoneT) :
             st \in {<<9, 0>>, <<0, 0>>, <<23, 59>>}, dow \in {1, 5, 7} }
    \cup { Form(st, "monthly", NoneT, dom, NoneT) :
             st \in {<<9, 0>>, <<0, 0>>, <<23, 59>>}, dom \in {1, 15, 30, 31} }
    \cup { Form(<<9, 0, 0>>, "daily", NoneT, NoneT, NoneT),
           Form(<<9, 0>>, "once", NoneT, NoneT, StartTime) }

CalendarInit == store = EmptyStore /\ \E t \in CalendarNows : InitAt(t)

AfterRun(surface, a) ==
    /\ store[a].exists
    /\ LET row == store[a]
           after == IF surface = "poller"
                    THEN Poller_update_schedule_after_run(now, row, row)
                    ELSE Webhook_update_schedule_after_run(now, row, row)
       IN  /\ store' = [store EXCEPT ![a] = after]
           /\ last_exec' = Executed(surface, row, row, "sent", now)
           /\ once_done' = [once_done EXCEPT ![a] = @ \/ OnceDone(row, row, after)]
    /\ response' = NoResponse
    /\ UNCHANGED <<now, edits, pollerVars, webhookVars, callVars, svcVars>>

CalendarNext ==
    \/ \E a \in Edited, form \in CalendarForms : manage_schedule(a, form)
    \/ \E a \in Edited : AfterRun("poller", a)
    \/ \E a \in Edited : AfterRun("webhook", a)

CalendarSpec == CalendarInit /\ [][CalendarNext]_vars

(***************************************************************************)
(* The passes over the tables the store can hold: two schedules, each      *)
(* absent or one of SampleRows, active or not, next_run_at unset or on     *)
(* and next to the edges of the window, last_run_at unset or on and next   *)
(* to the edge of the cooldown.  The clock stands still.                   *)
(***************************************************************************)
SelectorTime == StartTime + 600

SampleRow(a, active, next_run_at, last_run_at) ==
    [id |-> a, exists |-> TRUE, is_active |-> active,
     next_run_at |-> next_run_at, last_run_at |-> last_run_at,
     frequency_type |-> "daily", schedule_time |-> <<9, 10>>,
     day_of_week |-> NoneT, day_of_month |-> NoneT, one_time_datetime |-> NoneT]

SampleRows(a) ==
    { SampleRow(a, active, SelectorTime + d, l) :
          active \in BOOLEAN,
          d \in {0 - 301, 0 - 300, 300, 301},
          l \in {NoneT, SelectorTime - 540, SelectorTime - 600, SelectorTime - 660} }
    \cup { SampleRow(a, active, NoneT, NoneT) : active \in BOOLEAN }
    \cup { SampleRow(a, active, Unparsable, NoneT) : active \in BOOLEAN }
    \cup { SampleRow(a, TRUE, SelectorTime + d, Unparsable) : d \in {300, 301} }
    \cup { NoRow(a) }

SelectorInit ==
    /\ \E r1 \in SampleRows("a1"), r2 \in SampleRows("a2") :
          store = [a \in Agents |-> IF a = "a1" THEN r1 ELSE r2]
    /\ InitAt(SelectorTime)

SelectorSpec == SelectorInit /\ [][PollerNext \/ WebhookNext]_vars

\* The manual triggers one operator uses, one request at a time, with the
\* editor and the call schedules' own routes around them.
ManualNext ==
    \/ \E a \in Edited, form \in Forms : manage_schedule(a, form)
    \/ \E outcome \in ManualOutcomes : test_your_schedule(outcome)
    \/ CallRoutes({"r1"})

ManualSpec == Init /\ [][ManualNext]_vars

(***************************************************************************)
(* The life of the poller thread: SchedulerService.start, stop and         *)
(* _scheduler_loop, a pass taken as one step.                              *)
(***************************************************************************)
SvcStep ==
    /\ Quiet
    /\ UNCHANGED <<now, store, edits, pollerVars, webhookVars, once_done, callVars>>

\* start(): nothing when running; else running is set and a thread created.
start ==
    /\ IF running THEN UNCHANGED svcVars
       ELSE \E t \in Threads :
               /\ loop[t] = "new"
               /\ \A u \in Threads : u < t => loop[u] # "new"
               /\ running' = TRUE
               /\ thread' = t
               /\ loop' = [loop EXCEPT ![t] = "test"]
    /\ SvcStep

\* stop(): running is cleared and the thread joined for at most 5 seconds;
\* a loop in its pass or in its sleep of 60 seconds outlasts the join.
stop ==
    /\ running' = FALSE
    /\ UNCHANGED <<thread, loop>>
    /\ SvcStep

\* while self.running:
LoopTest(t) ==
    /\ loop[t] = "test"
    /\ loop' = [loop EXCEPT ![t] = IF running THEN "pass" ELSE "done"]
    /\ UNCHANGED <<running, thread>>
    /\ SvcStep

\* _check_and_execute_schedules() returns, or raises and is caught.
LoopPass(t) ==
    /\ loop[t] = "pass"
    /\ loop' = [loop EXCEPT ![t] = "sleep"]
    /\ UNCHANGED <<running, thread>>
    /\ SvcStep

\* time.sleep(60) returns.
LoopSleep(t) ==
    /\ loop[t] = "sleep"
    /\ loop' = [loop EXCEPT ![t] = "test"]
    /\ UNCHANGED <<running, thread>>
    /\ SvcStep

ServiceNext ==
    \/ start
    \/ stop
    \/ \E t \in Threads : LoopTest(t)
    \/ \E t \in Threads : LoopPass(t)
    \/ \E t \in Threads : LoopSleep(t)

ServiceInit == store = EmptyStore /\ InitBase(StartTime) /\ SvcConstructed

ServiceSpec == ServiceInit /\ [][ServiceNext]_vars

\* The call schedules under concurrent invocations of execute_scheduled_call.
CallSpec == Init /\ [][CallNext]_vars

(***************************************************************************)
(* The second occurrence: a schedule saved at one of CalendarNows and run  *)
(* by the poller at its first next_run_at stands in the store, and the     *)
(* clock is in the window of the next_run_at that run wrote.               *)
(***************************************************************************)
SecondRunOffsets == {0 - 300, 0 - 60, 0, 60, 300}

\* The rows the first run leaves behind, computed once.
SecondRunRows ==
    { Poller_update_schedule_after_run(saved.next_run_at, saved, saved) :
        saved \in { row \in { manage_schedule_row(ts, NoRow("a1"), form) :
                                ts \in CalendarNows,
                                form \in { f \in CalendarForms : f.frequency_type # "once" } } :
                        row.exists } }

SecondRunInit ==
    \E first \in SecondRunRows, d \in SecondRunOffsets :
        /\ store = [a \in Agents |-> IF a = "a1" THEN first ELSE NoRow(a)]
        /\ InitAt(first.next_run_at + d)

SecondRunSpec == SecondRunInit /\ [][PollerNext]_vars

(***************************************************************************)
(* Properties.                                                             *)
(***************************************************************************)
\* The step is the poller's selection, or a turn of the webhook's loop.
PollerSelects == poller_pc = "Idle" /\ poller_pc' = "Checking"
WebhookTurns == wh_pc = "Running" /\ wh_rows # <<>> /\ wh_rows' = Tail(wh_rows)

\* The turn of the webhook's loop executed the schedule it looked at.
WebhookExecuted(schedule) ==
    last_exec'.surface = "webhook" /\ last_exec'.schedule = schedule

RanWithin(schedule, t) ==
    schedule.last_run_at # NoneT /\ t - schedule.last_run_at < COOLDOWN

RanBeforeOrNever(schedule, t) ==
    schedule.last_run_at = NoneT \/ t - schedule.last_run_at > COOLDOWN

\* C1: an active schedule whose next_run_at is within 5 minutes of the pass's
\* now is left out of the due set by the poller and by the webhook when its
\* last_run_at is less than 10 minutes before now, and is in the due set when
\* its last_run_at is more than 10 minutes before now or unset.
C1_CooldownRule ==
    [][ /\ PollerSelects =>
             \A i \in 1..Len(ActiveRows(store)) :
                LET r == ActiveRows(store)[i]
                IN  InWindow(r, now) =>
                      /\ RanWithin(r, now) => r.id \notin Ids(due_schedules')
                      /\ RanBeforeOrNever(r, now) => r \in {due_schedules'[k] : k \in 1..Len(due_schedules')}
        /\ WebhookTurns =>
             LET r == Head(wh_rows)
             IN  InWindow(r, wh_now) =>
                   /\ RanWithin(r, wh_now) => last_exec'.surface = "none"
                   /\ RanBeforeOrNever(r, wh_now) => WebhookExecuted(r)
      ]_vars

\* A poller pass has just left out a schedule that ran 9 minutes before and
\* whose next_run_at is inside the window.
C1_Witness ==
    /\ poller_pc = "Checking"
    /\ poller_now = now
    /\ \E a \in Agents :
          /\ store[a].exists /\ store[a].is_active
          /\ InWindow(store[a], now)
          /\ store[a].last_run_at = now - 540
          /\ a \notin Ids(due_schedules)

\* The calculator of the surface that executed.
CalculatorOf(exec) ==
    IF exec.surface = "poller"
    THEN Poller_calculate_next_run_time(exec.at, exec.schedule)
    ELSE Webhook_calculate_next_run_time(exec.at, exec.schedule)

\* C2: after an execution by the poller or the webhook whose action succeeded
\* (digest delivered, or no matching emails), the stored last_run_at is the
\* execution instant, next_run_at is the calculator's next occurrence, a later
\* instant for a recurring schedule, and the schedule is switched off exactly
\* when it is a once schedule; for every schedule_time the store can hold,
\* the 'HH:MM:SS' of test_schedule_today.py included.
C2_SuccessAdvancesRunState ==
    (last_exec.surface # "none" /\ last_exec.outcome \in {"sent", "no_emails"}) =>
        LET row == store[last_exec.schedule.id]
            once == last_exec.schedule.frequency_type = "once"
            next_run_time == CalculatorOf(last_exec)
        IN  /\ row.last_run_at = last_exec.at
            /\ row.is_active = (last_exec.before.is_active /\ ~once)
            /\ ~once => row.next_run_at > last_exec.at
            /\ next_run_time \notin {NoneT, Raised} => row.next_run_at = next_run_time

\* C3: executing a due, active schedule whose agent is paused fetches and
\* sends nothing, returns success, and advances the run-state: last_run_at is
\* the execution instant and next_run_at a following occurrence.
C3_PausedAdvancesRunState ==
    (last_exec.surface # "none" /\ last_exec.outcome = "paused") =>
        LET row == store[last_exec.schedule.id]
        IN  /\ ~Fetched(last_exec.outcome)
            /\ last_exec.ret
            /\ row.last_run_at = last_exec.at
            /\ row.next_run_at > last_exec.at

\* The executions that fail hard: agent not found, refresh token missing,
\* delivery reported failure, a collaborator raised.
HardFailures == {"agent_missing", "no_token", "send_failed", "raised"}

\* The instants of the day the clock can stand at after t.
LaterInstants(t) ==
    {u \in {now - OffsetNow + Offsets[i] : i \in 1..Len(Offsets)} : u > t}

\* C4: an execution that fails hard returns False and leaves the stored row,
\* with its last_run_at, next_run_at and is_active, as it was; and when the
\* row is as the pass read it, the poller and the webhook both select it at
\* every later instant at which its tolerance window is still open.
C4_HardFailureKeepsRunState ==
    (last_exec.surface # "none" /\ last_exec.outcome \in HardFailures) =>
        LET row == store[last_exec.schedule.id]
        IN  /\ ~last_exec.ret
            /\ row = last_exec.before
            /\ last_exec.before = last_exec.schedule =>
                  \A u \in LaterInstants(last_exec.at) :
                      InWindow(row, u) => Poller_is_due(row, u) /\ _is_schedule_due(row, u)

\* A delivery has just failed for a schedule nobody else touched, and the
\* window is still open at a later instant.
C4_Witness ==
    /\ last_exec.surface # "none"
    /\ last_exec.outcome = "send_failed"
    /\ last_exec.before = last_exec.schedule
    /\ last_exec.schedule.last_run_at # NoneT
    /\ \E u \in LaterInstants(last_exec.at) : InWindow(store[last_exec.schedule.id], u)

\* The occurrence that follows the one a schedule's next_run_at names.
NextNaturalOccurrence(r) ==
    calculate_next_run_time(r.next_run_at, r.schedule_time, r.frequency_type,
                            r.day_of_week, r.day_of_month, r.one_time_datetime)

\* The tolerance window of the occurrence next_run_at names closed before t
\* and nothing advanced the schedule.
Missed(r, t) ==
    /\ r.frequency_type # "once"
    /\ r.next_run_at # NoneT
    /\ r.next_run_at + WINDOW < t

\* C5: a recurring active schedule whose occurrence was missed (every
\* execution failed, or no pass came, while the window was open) is due again
\* at its next natural occurrence: a poller pass that starts within the
\* tolerance window of that occurrence selects it.
C5_MissedOccurrenceDueAgain ==
    [][ PollerSelects =>
          \A i \in 1..Len(ActiveRows(store)) :
             LET r == ActiveRows(store)[i]
                 next == NextNaturalOccurrence(r)
             IN  ( /\ Missed(r, now)
                   /\ next # Raised
                   /\ now - next >= 0 - WINDOW
                   /\ now - next <= WINDOW
                   /\ RanBeforeOrNever(r, now) )
                 => r.id \in Ids(due_schedules')
      ]_vars

\* The webhook has just read the rows it will loop over.
WebhookReads == wh_pc = "Idle" /\ wh_pc' = "Running"

NotSchedulable(r) == r.exists /\ (~r.is_active \/ r.next_run_at = NoneT)

\* C6: in every pass of the poller and of the webhook, a schedule whose
\* stored is_active is false or whose next_run_at is unset is not selected as
\* due, whatever its next_run_at and last_run_at, and no schedule that a pass
\* read as inactive or without next_run_at is executed.
C6_InactiveOrUnsetNeverDue ==
    [][ /\ PollerSelects =>
             \A a \in Agents : NotSchedulable(store[a]) => a \notin Ids(due_schedules')
        /\ WebhookReads =>
             \A a \in Agents : (store[a].exists /\ ~store[a].is_active) => a \notin Ids(wh_rows')
        /\ WebhookTurns =>
             (NotSchedulable(Head(wh_rows)) => last_exec'.surface = "none")
        /\ last_exec'.surface # "none" => ~NotSchedulable(last_exec'.schedule)
      ]_vars

\* A poller pass has left out an inactive schedule that is inside the window
\* and never ran, and an active one without next_run_at.
C6_Witness ==
    /\ poller_pc = "Checking"
    /\ due_schedules = <<>>
    /\ ~store["a1"].is_active /\ InWindow(store["a1"], now) /\ store["a1"].last_run_at = NoneT
    /\ store["a2"].is_active /\ store["a2"].next_run_at = NoneT

\* The editor has just handled a save.
Saves == edits' = edits + 1

C8_LoopSurvives ==
    /\ [](poller_pc # "Terminated")
    /\ (poller_pc = "Checking") ~> (poller_pc = "Sleeping")
    /\ (poller_pc = "Sleeping") ~> (poller_pc = "Idle")
    /\ (poller_pc = "Idle") ~> (poller_pc \in {"Checking", "Sleeping"})

\* The last schedule of a pass has just raised and the pass is about to end.
C8_Witness ==
    /\ poller_pc = "Checking"
    /\ last_exec.surface = "poller"
    /\ last_exec.outcome = "raised"
    /\ due_schedules = <<>>

\* C9: a webhook request that presents a wrong shared secret is answered 401
\* with nothing executed; it reads no rows, evaluates no schedule, dispatches
\* nothing, and leaves every stored schedule as it was.
C9_WrongSecretRefused ==
    [][ \A header \in Headers, body \in Bodies :
          (Presented(header, body) = "wrong" /\ WebhookRequest(header, body))
             => /\ response' = Response(401, 0, "wrong")
                /\ wh_pc' = "Idle"
                /\ wh_rows' = wh_rows
                /\ last_exec' = NoExec
                /\ store' = store
      ]_vars

\* A request with a wrong secret has just been answered 401 while an active
\* schedule was due.
C9_Witness ==
    /\ response.status = 401
    /\ response.presented = "wrong"
    /\ \E a \in Agents :
          /\ store[a].exists /\ store[a].is_active
          /\ _is_schedule_due(store[a], now)

\* An instant, as opposed to None and to an exception.
IsInstant(x) == x \notin {NoneT, Raised}

\* C10: for every stored daily, weekly or monthly schedule, the next_run_at
\* the editor or an execution wrote at the current instant is strictly later
\* than that instant, and so is every instant that calculate_next_run_time
\* and SchedulerService._calculate_next_run_time compute for it now.
C10_NextRunStrictlyLater ==
    \A a \in Agents :
        LET r == store[a]
            saved == calculate_next_run_time(now, r.schedule_time, r.frequency_type,
                                             r.day_of_week, r.day_of_month,
                                             r.one_time_datetime)
            ran == Poller_calculate_next_run_time(now, r)
        IN  (r.exists /\ r.frequency_type # "once") =>
                /\ r.next_run_at > now
                /\ IsInstant(saved) => saved > now
                /\ IsInstant(ran) => ran > now

\* A daily schedule has just been saved at the very second of its time of
\* day: its next_run_at is one day ahead.
C10_Witness ==
    \E a \in Agents :
        /\ store[a].exists
        /\ store[a].frequency_type = "daily"
        /\ last_exec.surface = "none"
        /\ store[a].last_run_at = NoneT
        /\ store[a].next_run_at = now + DaySeconds

\* The owner-local time of day of an instant, in seconds after midnight.
LocalTimeOfDay(t) == Civil(t + IST_OFFSET).secs

\* The seconds after midnight that a two-field schedule_time names.
TimeOfDay(schedule_time) == schedule_time[1] * 3600 + schedule_time[2] * 60

\* C11: when a daily schedule is saved, next_run_at is the one instant after
\* now and at most a day after now whose owner-local (UTC+5:30) time of day is
\* the schedule's time_of_day: today's if that is still ahead, otherwise
\* tomorrow's.
C11_DailySave ==
    [][ \A a \in Agents :
          (Saves /\ store'[a] # store[a] /\ store'[a].frequency_type = "daily")
             => LET next_run_at == store'[a].next_run_at
                IN  /\ next_run_at > now
                    /\ next_run_at <= now + DaySeconds
                    /\ LocalTimeOfDay(next_run_at) = TimeOfDay(store'[a].schedule_time)
      ]_vars

\* A daily 09:00 schedule saved at 09:00:30 owner-local is set for tomorrow.
C11_Witness ==
    \E a \in Agents :
        /\ store[a].exists
        /\ store[a].frequency_type = "daily"
        /\ store[a].schedule_time = <<9, 0>>
        /\ store[a].last_run_at = NoneT
        /\ LocalTimeOfDay(now) = TimeOfDay(<<9, 0>>) + 30
        /\ store[a].next_run_at = now - 30 + DaySeconds

\* The owner-local weekday of an instant, 1 = Monday.
LocalWeekday(t) == Civil(t + IST_OFFSET).weekday + 1

\* n is the earliest instant strictly after t that falls on day_of_week at
\* the schedule's time of day, owner-local.
IsNextWeekly(n, t, r) ==
    /\ IsInstant(n)
    /\ n > t
    /\ n <= t + 7 * DaySeconds
    /\ LocalWeekday(n) = r.day_of_week
    /\ LocalTimeOfDay(n) = TimeOfDay(r.schedule_time)

\* The step ran a schedule that was inside its tolerance window.
RanInWindow(a) == last_exec'.surface # "none" /\ InWindow(store[a], now)

\* C12: for a weekly schedule, the next_run_at written at the current instant,
\* by a save or after an execution inside the window, is the earliest instant
\* strictly after it that falls on day_of_week (1 = Monday) at time_of_day
\* owner-local; on the target day with the time passed that is the instant 7
\* days later.
C12_WeeklyNextOccurrence ==
    [][ \A a \in Agents :
          ( /\ store'[a] # store[a]
            /\ store'[a].frequency_type = "weekly"
            /\ Saves \/ RanInWindow(a) )
             => IsNextWeekly(store'[a].next_run_at, now, store'[a])
      ]_vars

\* The later of two instants.
Later(t, u) == IF t >= u THEN t ELSE u

\* The day a monthly schedule falls on in a month: day_of_month, or the
\* month's last day when the month is shorter.
ClampedDay(year, month, day_of_month) == Min(day_of_month, monthrange(year, month))

\* The occurrence of a monthly schedule in the owner-local month of t.
ThisMonthOccurrence(t, day_of_month, schedule_time) ==
    LET c == Civil(t + IST_OFFSET)
    IN  FromCivil(c.year, c.month, ClampedDay(c.year, c.month, day_of_month),
                  schedule_time[1], schedule_time[2], 0) - IST_OFFSET

\* n lies on the schedule's day of the target month: the owner-local month
\* of t while its occurrence is still ahead, otherwise the month after.
OnTargetDay(n, t, day_of_month, schedule_time) ==
    /\ IsInstant(n)
    /\ n > t
    /\ LET c == Civil(n + IST_OFFSET)
           c0 == Civil(t + IST_OFFSET)
           this_month == c.year = c0.year /\ c.month = c0.month
           next_month == \/ c.year = c0.year /\ c.month = c0.month + 1
                         \/ c.year = c0.year + 1 /\ c.month = 1 /\ c0.month = 12
       IN  /\ c.day = ClampedDay(c.year, c.month, day_of_month)
           /\ IF ThisMonthOccurrence(t, day_of_month, schedule_time) > t
              THEN this_month
              ELSE next_month

\* C13: for a monthly schedule whose day_of_month can exceed a month's
\* length, every save stores, and the first execution by the poller inside
\* the window writes, a next_run_at on the last day of the target month
\* when that month is shorter (after a run, the target follows the occurrence
\* that was run): no save or update fails on an invalid date,
\* and none lands in the month after the target.
C13_MonthlyClamp ==
    [][ \A a \in Agents :
          /\ \A form \in CalendarForms :
                ( /\ form.frequency_type = "monthly"
                  /\ form.day_of_month >= 29
                  /\ manage_schedule(a, form) )
                 => /\ store'[a].exists
                    /\ store'[a].frequency_type = "monthly"
                    /\ store'[a].day_of_month = form.day_of_month
                    /\ OnTargetDay(store'[a].next_run_at, now,
                                   form.day_of_month, form.schedule_time)
          /\ ( /\ RanInWindow(a)
               /\ store[a].last_run_at = NoneT
               /\ last_exec'.surface = "poller"
               /\ last_exec'.schedule.id = a
               /\ last_exec'.schedule.frequency_type = "monthly"
               /\ last_exec'.schedule.day_of_month >= 29 )
              => /\ store'[a].last_run_at = now
                 /\ OnTargetDay(store'[a].next_run_at, Later(now, store[a].next_run_at),
                                store'[a].day_of_month, store'[a].schedule_time)
      ]_vars

\* What the editor's calculator returns for a schedule at t.
SavedNextRun(t, r) ==
    calculate_next_run_time(t, r.schedule_time, r.frequency_type,
                            r.day_of_week, r.day_of_month, r.one_time_datetime)

\* C14: after a successful execution of a daily schedule by the poller or the
\* webhook, the stored next_run_at has the same owner-local (UTC+5:30) time
\* of day as the next_run_at the editor computes for that schedule.
C14_SameLocalTimeOfDay ==
    ( /\ last_exec.surface # "none"
      /\ last_exec.ret
      /\ last_exec.schedule.frequency_type = "daily"
      /\ IsInstant(SavedNextRun(last_exec.at, last_exec.schedule)) )
        => LET row == store[last_exec.schedule.id]
           IN  /\ IsInstant(row.next_run_at)
               /\ LocalTimeOfDay(row.next_run_at)
                    = LocalTimeOfDay(SavedNextRun(last_exec.at, last_exec.schedule))


(***************************************************************************)
(* C15.  The manual triggers.                                              *)
(***************************************************************************)
\* A call schedule the execute route may act on.
Eligible(schedule) ==
    schedule.exists /\ schedule.is_active /\ schedule.call_status = "scheduled"

CountedBy(schedule, outcome) ==
    IF _is_schedule_due(schedule, wh_now) /\ outcome \in {"no_emails", "sent"} THEN 1 ELSE 0

\* C16: an accepted webhook request reads the active schedules once and
\* starts its count at 0; each turn of its loop adds 1 exactly when the
\* schedule was due and its execution returned True, and nothing else moves
\* the count during the pass; the pass ends with 200 and that count, whatever
\* the turns came to; 500 is answered only where no schedule is in hand.
C16_WebhookCount ==
    [][ /\ \A header \in Headers, body \in Bodies :
              (WebhookRequest(header, body) /\ AuthStatus(header, body) = NoneT) =>
                 /\ wh_rows' = ActiveRows(store)
                 /\ executed_count' = 0
        /\ \A outcome \in Outcomes :
              WebhookStep(outcome) =>
                 /\ executed_count' = executed_count + CountedBy(Head(wh_rows), outcome)
                 /\ CountedBy(Head(wh_rows), outcome) = 1 <=>
                       (last_exec'.surface = "webhook" /\ last_exec'.ret)
                 /\ response' = NoResponse
                 /\ wh_pc' = "Running"
        /\ WebhookRespond =>
              /\ response'.status = 200
              /\ response'.executed_schedules = executed_count
        /\ (wh_pc = "Running" /\ wh_pc' = "Running" /\ wh_rows' = wh_rows) =>
              executed_count' = executed_count
        /\ response'.status = 500 =>
              /\ wh_pc = "Idle" /\ wh_pc' = "Idle"
              /\ store' = store
        /\ response'.status = 200 => (wh_pc = "Running" /\ wh_rows = <<>>)
      ]_vars

\* A pass answered 200 with a count of 1.
C16_Witness == response.status = 200 /\ response.executed_schedules = 1

(***************************************************************************)
(* C17.  Selecting is a function of the store and the clock.               *)
(***************************************************************************)
\* enhanced_scheduler.get_due_schedules over the table st at t: the due
\* schedules in the order of the table, none when anything raises.
get_due_schedules(st, t) ==
    LET rows == ActiveRows(st)
        due(schedule) ==
            /\ schedule.next_run_at # NoneT
            /\ 0 - 300 <= schedule.next_run_at - t
            /\ schedule.next_run_at - t <= 300
            /\ (schedule.last_run_at = NoneT \/ t - schedule.last_run_at > 600)
        raises(schedule) ==
            \/ schedule.next_run_at = Unparsable
            \/ /\ schedule.next_run_at # NoneT
               /\ 0 - 300 <= schedule.next_run_at - t
               /\ schedule.next_run_at - t <= 300
               /\ schedule.last_run_at = Unparsable
    IN  IF \E i \in 1..Len(rows) : raises(rows[i]) THEN <<>>
        ELSE SelectSeq(rows, due)

RunSinceRead(schedule) == store[schedule.id].last_run_at # schedule.last_run_at

\* The webhook pass read the schedule as due at its now.
ReadAsDue(schedule, t) ==
    /\ InWindow(schedule, t)
    /\ schedule.last_run_at # Unparsable
    /\ (schedule.last_run_at = NoneT \/ t - schedule.last_run_at >= COOLDOWN)

\* C18: a pass decides on the row as it read it.  When the other surface has
\* executed the schedule and written its run-state since, the poller still
\* executes every schedule of its due set and the webhook every schedule it
\* read as due: the cooldown, tested on the row as read, suppresses neither.
C18_OverlapDispatchesTwice ==
    [][ /\ \A outcome \in Outcomes :
              (PollerExecute(outcome) /\ RunSinceRead(Head(due_schedules))) =>
                 /\ last_exec'.surface = "poller"
                 /\ last_exec'.schedule = Head(due_schedules)
        /\ \A outcome \in Outcomes :
              (WebhookStep(outcome) /\ RunSinceRead(Head(wh_rows))
                                    /\ ReadAsDue(Head(wh_rows), wh_now)) =>
                 /\ last_exec'.surface = "webhook"
                 /\ last_exec'.schedule = Head(wh_rows)
      ]_vars

\* The webhook delivered the digest of a schedule it had read as never run,
\* at the instant at which the poller delivered it and wrote last_run_at.
C18_Witness ==
    /\ last_exec.surface = "webhook"
    /\ last_exec.outcome = "sent"
    /\ last_exec.schedule.last_run_at = NoneT
    /\ last_exec.before.last_run_at = last_exec.at
    /\ last_exec.before.next_run_at # last_exec.schedule.next_run_at

(***************************************************************************)
(* C19.  Passes that do not overlap.                                       *)
(***************************************************************************)
\* A pass that reads the row at u executes it for the occurrence occ.
ExecutesAgain(row, occ, u) ==
    /\ row.exists /\ row.is_active
    /\ row.next_run_at = occ
    /\ (Poller_is_due(row, u) \/ _is_schedule_due(row, u))

\* C19: when a pass has executed a schedule successfully, on the row as it
\* read it, the row it leaves is selected by no pass that reads the store
\* from then on for the occurrence just executed: neither at the instant of
\* the execution nor at any later instant.
C19_AtMostOncePerOccurrence ==
    (last_exec.surface \in {"poller", "webhook"} /\ last_exec.ret
                                                 /\ last_exec.before = last_exec.schedule) =>
        \A u \in {last_exec.at} \cup LaterInstants(last_exec.at) :
            ~ExecutesAgain(store[last_exec.schedule.id], last_exec.schedule.next_run_at, u)

(***************************************************************************)
(* C20.  One schedule does not decide for another.                         *)
(***************************************************************************)
\* The row is active, its timestamps parse, and it is due for the poller.
DueForPoller(row, t) ==
    /\ row.exists /\ row.is_active
    /\ ~Poller_raises(row, t)
    /\ Poller_is_due(row, t)

\* C20: in a pass of the poller every stored schedule that is due by its own
\* fields is selected, whatever the other rows hold, and each execution,
\* whatever it comes to, leaves the rest of the due set to be executed; in a
\* pass of the webhook every row read is looked at in turn and executed
\* exactly when it is due by its own fields.
C20_PassIndependent ==
    [][ /\ PollerSelect =>
              \A a \in Agents :
                  DueForPoller(store[a], now) =>
                     /\ poller_pc' = "Checking"
                     /\ a \in Ids(due_schedules')
        /\ \A outcome \in Outcomes :
              PollerExecute(outcome) =>
                 /\ poller_pc' = "Checking"
                 /\ due_schedules' = Tail(due_schedules)
        /\ \A outcome \in Outcomes :
              WebhookStep(outcome) =>
                 /\ wh_pc' = "Running"
                 /\ wh_rows' = Tail(wh_rows)
                 /\ _is_schedule_due(Head(wh_rows), wh_now) <=>
                       WebhookExecuted(Head(wh_rows))
      ]_vars

(***************************************************************************)
(* C21.  The three selectors against one another.                          *)
(***************************************************************************)
\* The due set a poller pass would hold if it selected from st at t.
PollerDueSet(st, t) ==
    IF PassRaises(ActiveRows(st), t) THEN <<>>
    ELSE SelectSeq(ActiveRows(st), LAMBDA r : Poller_is_due(r, t))

\* The schedules a webhook pass would execute if it read st at t.
WebhookDueSet(st, t) == SelectSeq(ActiveRows(st), LAMBDA r : _is_schedule_due(r, t))

\* C21: whatever the store holds and whatever the instant, the poller, the
\* webhook and the standalone scheduler select the same schedules.
C21_SameDueSet ==
    /\ PollerDueSet(store, now) = WebhookDueSet(store, now)
    /\ PollerDueSet(store, now) = get_due_schedules(store, now)

(***************************************************************************)
(* C22.  The three writers of the run-state against one another.           *)
(***************************************************************************)
SameRunState(r1, r2) ==
    r1.next_run_at = r2.next_run_at /\ r1.is_active = r2.is_active

\* C22: for every stored active schedule and the instant of the clock, the
\* update after a successful execution leaves the same next_run_at and the
\* same is_active whether the poller, the webhook or the standalone
\* scheduler makes it.
C22_SameRunStateWritten ==
    \A a \in Agents :
        (store[a].exists /\ store[a].is_active) =>
            LET row == store[a]
                poller == Poller_update_schedule_after_run(now, row, row)
            IN  /\ SameRunState(poller, Webhook_update_schedule_after_run(now, row, row))
                /\ SameRunState(poller, Cli_update_schedule_after_run(now, row, row))

(***************************************************************************)
(* C23.  A time of day that does not parse.                                *)
(***************************************************************************)
\* The calculators read schedule_time and cannot parse it.
BadTimeOfDay(schedule) ==
    schedule.frequency_type # "once" /\ ~ParsesHourMinute(schedule.schedule_time)

\* C23: a save whose time of day does not parse writes nothing, and an
\* execution of a schedule whose time of day does not parse, its delivery
\* done, reports the failure (returns False) and leaves the stored row as it
\* was: the error is neither turned into a calculator result nor passed over
\* as a success.
C23_BadTimeOfDayReported ==
    [][ /\ \A a \in Agents, form \in Forms :
              (manage_schedule(a, form) /\ BadTimeOfDay(form)) => store' = store
        /\ ( /\ last_exec'.surface \in {"poller", "webhook"}
             /\ last_exec'.outcome \in {"no_emails", "sent"}
             /\ BadTimeOfDay(last_exec'.schedule) ) =>
              /\ ~last_exec'.ret
              /\ store'[last_exec'.schedule.id] = last_exec'.before
      ]_vars

(***************************************************************************)
(* C24.  The run-state is written whole.                                   *)
(***************************************************************************)
\* C24: an execution of a recurring schedule by the poller or the webhook,
\* on the row as the pass read it, never leaves the stored row with
\* last_run_at advanced and next_run_at at its value of before the
\* execution, nor with next_run_at changed and last_run_at not written.
C24_RunStateWrittenWhole ==
    (last_exec.surface \in {"poller", "webhook"}
        /\ last_exec.schedule.frequency_type # "once"
        /\ last_exec.before = last_exec.schedule) =>
        LET row == store[last_exec.schedule.id]
            before == last_exec.before
        IN  /\ ~(row.last_run_at # before.last_run_at /\ row.next_run_at = before.next_run_at)
            /\ ~(row.next_run_at # before.next_run_at /\ row.last_run_at # last_exec.at)

(***************************************************************************)
(* C25.  A request without a credential.                                   *)
(***************************************************************************)
\* C25: a webhook request that presents no credential, neither the header
\* nor an api_key in a JSON body, is answered 401; it reads no rows,
\* executes nothing and leaves every stored schedule as it was.
C25_NoCredentialRefused ==
    [][ \A header \in Headers, body \in Bodies :
          (Presented(header, body) = "nothing" /\ WebhookRequest(header, body))
             => /\ response'.status = 401
                /\ wh_pc' = "Idle"
                /\ wh_rows' = wh_rows
                /\ last_exec' = NoExec
                /\ store' = store
      ]_vars

(***************************************************************************)
(* C26.  One poller loop.                                                  *)
(***************************************************************************)
\* The loops that have been started and have not ended.
LiveLoops == {t \in Threads : loop[t] \in {"test", "pass", "sleep"}}

\* C26: after any sequence of start() and stop() calls at most one poller
\* loop is live.
C26_AtMostOneLoop == Cardinality(LiveLoops) <= 1

(***************************************************************************)
(* C27.  An execution moves next_run_at on.                                *)
(***************************************************************************)
\* C27: when the poller has executed a recurring schedule successfully, on
\* the row as it read it, the stored next_run_at is later than the
\* next_run_at that made the schedule due.
C27_ExecutionAdvancesNextRun ==
    (last_exec.surface = "poller" /\ last_exec.ret
        /\ last_exec.schedule.frequency_type # "once"
        /\ last_exec.before = last_exec.schedule) =>
        store[last_exec.schedule.id].next_run_at > last_exec.schedule.next_run_at

(***************************************************************************)
(* C28.  One call per call schedule.                                       *)
(***************************************************************************)
\* C28: whatever the interleaving of the invocations of
\* execute_scheduled_call, at most one call is placed for a call schedule,
\* and no two invocations are past the check of is_active and call_status
\* for the same schedule at once.
C28_AtMostOneCall ==
    /\ \A id \in CallIds : dialed[id] <= 1
    /\ \A r, q \in Requests :
          (r # q /\ call_req[r].pc # "idle" /\ call_req[q].pc # "idle") =>
              call_req[r].schedule_id # call_req[q].schedule_id

(***************************************************************************)
(* C29.  A call that could not be placed.                                  *)
(***************************************************************************)
\* An invocation of execute_scheduled_call is at work on the schedule.
InFlight(id) ==
    \E r \in Requests : call_req[r].pc # "idle" /\ call_req[r].schedule_id = id

C30_OwnOrganizationOnly ==
    [][ /\ \A r \in Requests, org \in Orgs, id \in CallIds :
              ( /\ CallArrive(r, org, id)
                /\ call_schedules[id].exists
                /\ call_schedules[id].org_id # org ) =>
                    /\ call_req' = call_req
                    /\ ~call_result'.success
        /\ \A org \in Orgs, id \in CallIds, active \in BOOLEAN :
              update_call_schedule(org, id, active) => call_schedules[id].org_id = org
      ]_vars
=============================================================================
